---- MODULE Spec2Model ----
(***************************************************************************)
(* Model of losoto's h5parm layer (src/h5parm.py) and of the H5parm        *)
(* collector script (src/bin/H5parm_collector.py).                         *)
(*                                                                         *)
(* Strings that the code inspects character by character (node and         *)
(* attribute names) are sequences of one-character strings.  Arrays are    *)
(* records [shape, data] where data maps 0-based index tuples to cells.    *)
(***************************************************************************)
EXTENDS Integers, Sequences, FiniteSets, TLC

\* ------------------------------------------------------------------ bounds
MaxTables == 2
MaxCoord == 2
MaxCalls == 3
MaxHist == 4

\* ------------------------------------------------------- generic helpers
RECURSIVE Indexes(_)
Indexes(shape) ==
  IF shape = <<>> THEN {<<>>}
  ELSE {<<i>> \o r : i \in 0..(shape[1] - 1), r \in Indexes(Tail(shape))}

Range(s) == {s[i] : i \in DOMAIN s}

\* The non-empty duplicate-free sequences over the set S (sorted or not).
InjSeqs(S) ==
  UNION {{s \in [1..n -> S] : \A i, j \in 1..n : s[i] = s[j] => i = j} :
         n \in 1..Cardinality(S)}

\* The orders in which the items of a finite set can be enumerated.
Orders(S) ==
  {s \in [1..Cardinality(S) -> S] : \A i, j \in DOMAIN s : s[i] = s[j] => i = j}

\* ------------------------------------------------------- text primitives
Digits == <<"0", "1", "2", "3", "4", "5", "6", "7", "8", "9">>

DigitChars == Range(Digits)

Letters ==
  {"a", "b", "c", "d", "e", "f", "g", "h", "i", "j", "k", "l", "m", "n", "o",
   "p", "q", "r", "s", "t", "u", "v", "w", "x", "y", "z",
   "A", "B", "C", "D", "E", "F", "G", "H", "I", "J", "K", "L", "M", "N", "O",
   "P", "Q", "R", "S", "T", "U", "V", "W", "X", "Y", "Z"}

\* The characters of the class [A-Za-z0-9_-].
NameChars == Letters \cup DigitChars \cup {"_", "-"}

\* Python's None where a name is expected: no string equals it.
None == <<"None">>

\* "%03d" % n, for the n the code formats (0..999).
Fmt03d(n) == <<Digits[(n \div 100) + 1], Digits[((n \div 10) % 10) + 1], Digits[(n % 10) + 1]>>

DigitVal(c) == (CHOOSE d \in 1..10 : Digits[d] = c) - 1

\* s[-3:]
Last3(s) == IF Len(s) <= 3 THEN s ELSE SubSeq(s, Len(s) - 2, Len(s))

\* s[:-3]
DropLast3(s) == IF Len(s) <= 3 THEN <<>> ELSE SubSeq(s, 1, Len(s) - 3)

\* int(s) for a string of three decimal digits.
ParseInt3(s) == 100 * DigitVal(s[1]) + 10 * DigitVal(s[2]) + DigitVal(s[3])

\* re.match(r'^[A-Za-z0-9_-]+$', name)
ValidName(name) == Len(name) >= 1 /\ \A i \in DOMAIN name : name[i] \in NameChars

\* The token of a pattern that stands for the class [0-9].
DigitClass == "[0-9]"

\* One pattern token against one character: '.' matches any character, the
\* class [0-9] a digit, anything else itself.
TokenMatches(tok, c) ==
  IF tok = "." THEN TRUE
  ELSE IF tok = DigitClass THEN c \in DigitChars
  ELSE tok = c

\* re.match('^' + pat + '$', s) for patterns made of literal characters,
\* '.', and the postfix repetition '+' (one or more of the preceding token).
\* No string of the model ends in a newline, so '$' is the end of s.
RECURSIVE RegexMatch(_, _)
RegexMatch(pat, s) ==
  IF pat = <<>> THEN s = <<>>
  ELSE IF Len(pat) >= 2 /\ pat[2] = "+"
    THEN /\ s # <<>>
         /\ TokenMatches(pat[1], s[1])
         /\ \/ RegexMatch(Tail(Tail(pat)), Tail(s))
            \/ RegexMatch(pat, Tail(s))
    ELSE /\ s # <<>>
         /\ TokenMatches(pat[1], s[1])
         /\ RegexMatch(Tail(pat), Tail(s))

\* ------------------------------------------------------------ arrays
\* An array of the given shape with every cell set to fill.
Full(shape, fill) == [shape |-> shape, data |-> [idx \in Indexes(shape) |-> fill]]

\* [len(v) for v in axesVals]
Dim(axesVals) == [i \in DOMAIN axesVals |-> Len(axesVals[i])]

\* ------------------------------------------------------------ h5parm
\* A solution-set group: its child groups (the solution-tables) by name and
\* the rows of its two catalog tables, the leaves 'antenna' and 'source'.
AntennaLeaf == <<"a", "n", "t", "e", "n", "n", "a">>

SourceLeaf == <<"s", "o", "u", "r", "c", "e">>

EmptyMap == <<>>

makeSolset == [groups |-> EmptyMap, antenna |-> <<>>, source |-> <<>>]

getSoltabs(solset) == solset.groups

\* Every child node of the solution-set group, tables and leaves alike.
Children(solset) == DOMAIN solset.groups \cup {AntennaLeaf, SourceLeaf}

\* min(list(set(range(1000)) - set(nums))); min() of an empty list raises.
Ceiling == 1000

FirstFree(nums) == CHOOSE n \in 0..(Ceiling - 1) :
                     n \notin nums /\ \A m \in 0..(n - 1) : m \in nums

Exhausted(nums) == \A n \in 0..(Ceiling - 1) : n \in nums

\* The suffixes taken according to the scan of the table names: the names
\* that re.match(r'^' + soltype + '[0-9][0-9][0-9]$', name) accepts.
SoltabNums(solset, soltype) ==
  {ParseInt3(Last3(name)) :
     name \in {nm \in DOMAIN getSoltabs(solset) :
                 RegexMatch(soltype \o <<DigitClass, DigitClass, DigitClass>>, nm)}}

fisrtAvailSoltabName(solset, soltype) == soltype \o Fmt03d(FirstFree(SoltabNums(solset, soltype)))

\* The table name makeSoltab settles on before it creates the group.
ResolveName(solset, soltab) ==
  LET n1 == IF soltab # None /\ ~ValidName(soltab) THEN None ELSE soltab
  IN IF n1 \in DOMAIN getSoltabs(solset) THEN None ELSE n1

\* A group as create_group leaves it, and the group after the axis arrays.
NewGroup(soltype) == [title |-> soltype, axesNames |-> <<>>, axesVals |-> <<>>, arrays |-> EmptyMap]

WithAxes(node, axesNames, axesVals) == [node EXCEPT !.axesNames = axesNames, !.axesVals = axesVals]

WithArrays(node, vals, weights) == [node EXCEPT !.arrays = ("val" :> vals) @@ ("weight" :> weights)]

Put(solset, name, node) ==
  [solset EXCEPT !.groups = [n \in DOMAIN solset.groups \cup {name} |->
                               IF n = name THEN node ELSE solset.groups[n]]]

\* h5parm.makeSoltab: the solution-set after the call, the exception raised
\* ("none" when the call returns) and the name of the group it created.
\* What was created before an exception stays in the file.
makeSoltab(solset, soltype, soltab, axesNames, axesVals, vals, weights) ==
  LET resolved == ResolveName(solset, soltab)
      nums     == SoltabNums(solset, soltype)
      name     == IF resolved = None THEN fisrtAvailSoltabName(solset, soltype) ELSE resolved
      group    == NewGroup(soltype)
      axed     == WithAxes(group, axesNames, axesVals)
      Out(s, e, n) == [solset |-> s, raised |-> e, name |-> n]
  IN IF soltype = None THEN Out(solset, "Exception", None)
     ELSE IF resolved = None /\ Exhausted(nums) THEN Out(solset, "ValueError", None)
     ELSE IF name \in Children(solset) THEN Out(solset, "NodeError", None)
     ELSE IF Len(axesNames) # Len(axesVals)
       THEN Out(Put(solset, name, group), "AssertionError", name)
     ELSE IF Dim(axesVals) # vals.shape \/ Dim(axesVals) # weights.shape
       THEN Out(Put(solset, name, axed), "AssertionError", name)
     ELSE Out(Put(solset, name, WithArrays(axed, vals, weights)), "none", name)

\* ================================================================= state
VARIABLES
  solset,     \* a solution-set that makeSoltab calls build up
  last,       \* the latest makeSoltab call: its arguments and its outcome
  ncalls,     \* the number of makeSoltab calls made so far
  h5s,        \* collector: the input files, in command-line order
  insoltab,   \* collector: args.insoltab
  h5Out,      \* collector: the output file, solution-set name -> solution-set
  h5Out0,     \* collector: the output file as it was when the run opened it
  pc,         \* collector: the block of the script that runs next
  soltabs,    \* collector: the input tables collected so far
  antennaNames, antennaPositions, pointingNames, pointingDirections,
  allAxesVals, allShape, allVals, allWeights,
  nfilled,    \* collector: the number of input tables scattered so far
  tAttrs,     \* history: the user attributes of the table group, name -> value
  valAttrs,   \* history: the user attributes of the table's val array
  entries,    \* history: the records the addHistory calls were to add, in call order
  now,        \* history: the clock, in seconds
  uIn,        \* axis union: the coordinate arrays of three tables A, B, C
  uStaged,    \* axis union: the axis of merging [A,B] and then the result with C
  uDirect,    \* axis union: the axis of merging [A,B,C]
  uPermuted,  \* axis union: the axis of merging a permutation of [A,B,C]
  hCls,       \* handler: the class of the handler object
  hTable,     \* handler: the object passed to the constructor as table
  hT,         \* handler: the attribute self.t
  hSel,       \* handler: the attribute self.selection
  hLast,      \* handler: the latest method call, its arguments and its outcome
  hCalls,     \* handler: the number of method calls made so far
  files,      \* handles: what is on disk, by file (0 the output, k the k-th input)
  objs,       \* handles: the h5parm objects created so far
  lifePc,     \* handles: the block of the script that runs next
  opened,     \* handles: the number of input files the open loop has passed
  runArgs     \* handles: the command line and whether the merge raises

soltabVars == <<solset, last, ncalls>>

collectorVars ==
  <<h5s, insoltab, h5Out, h5Out0, pc, soltabs, antennaNames, antennaPositions,
    pointingNames, pointingDirections, allAxesVals, allShape, allVals, allWeights,
    nfilled>>

historyVars == <<tAttrs, valAttrs, entries, now>>

unionVars == <<uIn, uStaged, uDirect, uPermuted>>

handlerVars == <<hCls, hTable, hT, hSel, hLast, hCalls>>

lifeVars == <<files, objs, lifePc, opened, runArgs>>

vars == <<soltabVars, collectorVars, historyVars, unionVars, handlerVars, lifeVars>>

\* ------------------------------------------- makeSoltab, call after call
Amplitude == <<"a", "m", "p", "l", "i", "t", "u", "d", "e">>

AmpPlusPhase == <<"a", "+", "p">>

\* The solution types the calls pass; a type is a free-form string.
SolTypes == {Amplitude, AmpPlusPhase}

\* The table names the calls pass: a fresh valid name, a name of the
\* generated form, a name with an unsupported character, the name of a
\* catalog leaf, or no name.
SoltabArgs ==
  {None, <<"t", "0">>, Amplitude \o Fmt03d(1), <<"t", " ">>, AntennaLeaf}

CallAxesNames == <<"time", "freq">>

CallAxesVals == <<<<1, 2>>, <<1>>>>

\* The arrays the calls pass with those axes, as <<axesNames, shape of vals,
\* shape of weights>>: matching ones, vals transposed, weights of the wrong
\* rank, and one axis name too few.
CallData ==
  {<<CallAxesNames, <<2, 1>>, <<2, 1>>>>, <<CallAxesNames, <<1, 2>>, <<2, 1>>>>,
   <<CallAxesNames, <<2, 1>>, <<2>>>>, <<<<"time">>, <<2, 1>>, <<2, 1>>>>}

NoCall == [soltype |-> None, soltab |-> None, raised |-> "none", name |-> None,
           before |-> makeSolset]

InitSoltab ==
  /\ solset = makeSolset
  /\ last = NoCall
  /\ ncalls = 0

MakeSoltab ==
  /\ ncalls < MaxCalls
  /\ \E soltype \in SolTypes \cup {None}, soltab \in SoltabArgs, data \in CallData :
       LET r == makeSoltab(solset, soltype, soltab, data[1], CallAxesVals,
                           Full(data[2], 0), Full(data[3], 1))
       IN /\ solset' = r.solset
          /\ last' = [soltype |-> soltype, soltab |-> soltab, raised |-> r.raised,
                      name |-> r.name, before |-> solset]
  /\ ncalls' = ncalls + 1
  /\ UNCHANGED <<collectorVars, historyVars, unionVars, handlerVars, lifeVars>>


\* ------------------------------------------------ collector: primitives
\* np.nan, the missing marker; every finite value of the model is >= 0.
NaN == -1

isnan(v) == v = NaN

getAxesNames(soltab) == soltab.axesNames

getType(soltab) == soltab.title

getAxisValues(soltab, axis) ==
  soltab.axesVals[CHOOSE i \in DOMAIN soltab.axesNames : soltab.axesNames[i] = axis]

\* itertools.chain(*lists)
RECURSIVE chain(_)
chain(lists) == IF lists = <<>> THEN <<>> ELSE lists[1] \o chain(Tail(lists))

\* sorted(S, reverse=True), in place of sorted(S)
RECURSIVE sortedReverse(_)
sortedReverse(S) ==
  IF S = {} THEN <<>>
  ELSE LET m == CHOOSE x \in S : \A y \in S : y <= x
       IN <<m>> \o sortedReverse(S \ {m})

\* sorted(S) for a set of numbers
RECURSIVE sorted(_)
sorted(S) ==
  IF S = {} THEN <<>>
  ELSE LET m == CHOOSE x \in S : \A y \in S : x <= y
       IN <<m>> \o sorted(S \ {m})

\* The values in the order of their first occurrence: the union without
\* the sort.
RECURSIVE FirstSeen(_, _)
FirstSeen(s, seen) ==
  IF s = <<>> THEN seen
  ELSE FirstSeen(Tail(s), IF s[1] \in Range(seen) THEN seen ELSE Append(seen, s[1]))

UnionAxisUnsorted(lists) == FirstSeen(chain(lists), <<>>)

\* np.array(sorted(list(set(chain(*lists)))))
UnionAxis(lists) == sorted(Range(chain(lists)))

\* np.searchsorted(a, v): for each value the leftmost insertion point in
\* the sorted array a, found by bisection (0-based).
RECURSIVE Bisect(_, _, _, _)
Bisect(a, x, lo, hi) ==
  IF lo >= hi THEN lo
  ELSE LET mid == (lo + hi) \div 2
       IN IF a[mid + 1] < x THEN Bisect(a, x, mid + 1, hi) ELSE Bisect(a, x, lo, mid)

\* np.searchsorted(a, v, side='right'), in place of the default side
searchsortedRight(a, v) == [i \in DOMAIN v |-> Bisect(a, v[i] + 1, 0, Len(a))]

searchsorted(a, v) == [i \in DOMAIN v |-> Bisect(a, v[i], 0, Len(a))]

\* arr[np.ix_(*coords)] = src: cell idx of src goes to the cell of arr whose
\* index along each axis d is coords[d][idx[d]].
IxAssign(arr, coords, src) ==
  [arr EXCEPT !.data =
     [t \in DOMAIN arr.data |->
        LET hits == {idx \in DOMAIN src.data :
                       \A d \in DOMAIN coords : coords[d][idx[d] + 1] = t[d]}
        IN IF hits = {} THEN arr.data[t] ELSE src.data[CHOOSE idx \in hits : TRUE]]]

\* np.zeros( shape=allShape ), in place of the array of missing markers
EmptyValsZeros(shape) == Full(shape, 0)

\* allVals = np.empty( shape=allShape ); allVals[:] = np.nan
EmptyVals(shape) == Full(shape, NaN)

\* allWeights = np.zeros( shape=allShape )
ZeroWeights(shape) == Full(shape, 0)

\* The weights left as they were scattered.
NormalizeWeightsSkipped(w) == w

\* allWeights[ allWeights != 0 ] = 1.
NormalizeWeights(w) == [w EXCEPT !.data = [t \in DOMAIN w.data |-> IF w.data[t] # 0 THEN 1 ELSE 0]]

\* The weights of the missing-valued cells left as they are.
FlagNansSkipped(w, v) == w

\* allWeights[ np.isnan(allVals) ] = 0.
FlagNans(w, v) == [w EXCEPT !.data = [t \in DOMAIN w.data |-> IF isnan(v.data[t]) THEN 0 ELSE w.data[t]]]

\* The same loop without the test "if k not in names".
RECURSIVE CollectItemsAll(_, _, _, _)
CollectItemsAll(d, order, names, vals) ==
  IF order = <<>> THEN <<names, vals>>
  ELSE CollectItemsAll(d, Tail(order), Append(names, order[1]), Append(vals, d[order[1]]))

\* for k, v in d.items(): if k not in names: names.append(k); vals.append(v)
\* with the items taken in the given order; the result is <<names, vals>>.
RECURSIVE CollectItems(_, _, _, _)
CollectItems(d, order, names, vals) ==
  IF order = <<>> THEN <<names, vals>>
  ELSE IF order[1] \in Range(names)
    THEN CollectItems(d, Tail(order), names, vals)
    ELSE CollectItems(d, Tail(order), Append(names, order[1]), Append(vals, d[order[1]]))

\* list(zip(names, values))
zip(names, vals) == [i \in DOMAIN names |-> [name |-> names[i], value |-> vals[i]]]

\* ---------------------------------------------------- collector: inputs
\* Every input file holds one table in the chosen solution-set, so the loop
\* "for insoltab in insoltabs" runs once.  The Soltab accessors the script
\* calls (getAxesNames, getType, getAxisValues) read the table's fields; the
\* table is written with h5parm.makeSoltab.  Coordinates are integers and
\* the coordinate arrays of the inputs are duplicate-free.
OutSolset == "sol000"

MergeAxes == <<"time", "freq">>

TimeSeqs == InjSeqs(1..MaxCoord)

FreqSeqs == {<<2>>, <<1, 2>>}

\* The k-th input table: every cell holds a value that names the table and
\* the cell; its first cell is missing with weight 5 in odd tables and
\* finite with weight 0 in even ones; the weight of any other cell is k + 1.
InputVal(k, idx) == IF idx = <<0, 0>> /\ k % 2 = 1 THEN NaN ELSE 100 * k + 10 * idx[1] + idx[2]

InputWeight(k, idx) == IF idx = <<0, 0>> THEN (IF k % 2 = 1 THEN 5 ELSE 0) ELSE k + 1

Soltab(soltype, axesNames, axesVals, val, weight) ==
  [title |-> soltype, axesNames |-> axesNames, axesVals |-> axesVals,
   arrays |-> ("val" :> val) @@ ("weight" :> weight)]

InputTable(k, times, freqs) ==
  LET shape == <<Len(times), Len(freqs)>>
  IN Soltab(Amplitude, MergeAxes, <<times, freqs>>,
            [shape |-> shape, data |-> [idx \in Indexes(shape) |-> InputVal(k, idx)]],
            [shape |-> shape, data |-> [idx \in Indexes(shape) |-> InputWeight(k, idx)]])

\* A table over the single axis time with one value and weight 1 everywhere.
FlatTable(times, value) ==
  Soltab(Amplitude, <<"time">>, <<times>>, Full(<<Len(times)>>, value), Full(<<Len(times)>>, 1))

\* An input file: the chosen solution-set's table and its two catalogs
\* (getAnt and getSou give them as dicts name -> value).
File(soltab, ant, sou) == [soltab |-> soltab, ant |-> ant, sou |-> sou]

OneAnt == ("CS001" :> 1)

OneSou == ("pointing" :> 1)

\* The non-empty dicts from some of the names to the values.
Dicts(names, values) == UNION {[D -> values] : D \in (SUBSET names) \ {{}}}

AntDicts == Dicts({"CS001", "RS106"}, {1, 2})

\* Inputs that differ in their tables: table k has the k-th time coordinates;
\* the odd tables share their freq coordinates and so do the even ones.
TableInputs(ts, fs) == [k \in DOMAIN ts |-> File(InputTable(k, ts[k], fs[k % 2]), OneAnt, OneSou)]

\* Inputs that differ in their catalogs: file k has the k-th antenna dict.
CatalogInputs(as) ==
  [k \in DOMAIN as |-> File(InputTable(k, <<1>>, <<1>>), as[k], ("pointing" :> k))]

\* time = [1,2,3] with value 10 and time = [2,3,4] with value 20.
ScenarioInputs ==
  <<File(FlatTable(<<1, 2, 3>>, 10), OneAnt, OneSou),
    File(FlatTable(<<2, 3, 4>>, 20), OneAnt, OneSou)>>

\* The output file: missing (or removed by --clobber), so created empty, or
\* left by an earlier run with a table and catalog rows in the solution-set.
FreshOut == EmptyMap

EarlierOut ==
  (OutSolset :>
     [groups  |-> (<<"t", "0">> :> FlatTable(<<1>>, 10)),
      antenna |-> <<[name |-> "CS001", value |-> 2]>>,
      source  |-> <<[name |-> "pointing", value |-> 2]>>])

InitCollector ==
  /\ \/ /\ \E K \in 1..MaxTables : \E ts \in [1..K -> TimeSeqs], fs \in [0..1 -> FreqSeqs] :
              h5s = TableInputs(ts, fs)
        /\ insoltab = None
        /\ h5Out = FreshOut
     \/ /\ h5s = ScenarioInputs
        /\ insoltab = None
        /\ h5Out = FreshOut
     \/ /\ \E K \in 1..MaxTables : \E as \in [1..K -> AntDicts] : h5s = CatalogInputs(as)
        /\ insoltab \in {None, <<"t", "0">>}
        /\ h5Out \in {FreshOut, EarlierOut}
  /\ h5Out0 = h5Out
  /\ pc = "collect"
  /\ soltabs = <<>>
  /\ antennaNames = <<>> /\ antennaPositions = <<>>
  /\ pointingNames = <<>> /\ pointingDirections = <<>>
  /\ allAxesVals = EmptyMap
  /\ allShape = <<>>
  /\ allVals = EmptyVals(<<0>>)
  /\ allWeights = ZeroWeights(<<0>>)
  /\ nfilled = 0

\* ---------------------------------------------------- collector: script
\* One pass of "for h5 in h5s": collect the table and the catalog entries.
Collect ==
  /\ pc = "collect"
  /\ LET h5 == h5s[Len(soltabs) + 1]
     IN /\ soltabs' = Append(soltabs, h5.soltab)
        /\ \E so \in Orders(DOMAIN h5.sou), ao \in Orders(DOMAIN h5.ant) :
             LET p == CollectItems(h5.sou, so, pointingNames, pointingDirections)
                 a == CollectItems(h5.ant, ao, antennaNames, antennaPositions)
             IN /\ pointingNames' = p[1] /\ pointingDirections' = p[2]
                /\ antennaNames' = a[1] /\ antennaPositions' = a[2]
  /\ pc' = IF Len(soltabs') = Len(h5s) THEN "axes" ELSE "collect"
  /\ UNCHANGED <<h5s, insoltab, h5Out, h5Out0, allAxesVals, allShape, allVals, allWeights, nfilled>>
  /\ UNCHANGED <<soltabVars, historyVars, unionVars, handlerVars, lifeVars>>

\* "create output axes" and "make final arrays".
MakeAxes ==
  /\ pc = "axes"
  /\ LET axes == getAxesNames(soltabs[1])
     IN /\ allAxesVals' = [axis \in Range(axes) |->
                             UnionAxis([k \in DOMAIN soltabs |-> getAxisValues(soltabs[k], axis)])]
        /\ allShape' = [i \in DOMAIN axes |-> Len(allAxesVals'[axes[i]])]
  /\ allVals' = EmptyVals(allShape')
  /\ allWeights' = ZeroWeights(allShape')
  /\ pc' = "fill"
  /\ UNCHANGED <<h5s, insoltab, h5Out, h5Out0, soltabs, antennaNames, antennaPositions,
                 pointingNames, pointingDirections, nfilled>>
  /\ UNCHANGED <<soltabVars, historyVars, unionVars, handlerVars, lifeVars>>

\* One pass of "fill arrays": scatter one input table into the merged arrays.
Fill ==
  /\ pc = "fill"
  /\ LET soltab == soltabs[nfilled + 1]
         axes   == getAxesNames(soltabs[1])
         coords == [i \in DOMAIN axes |->
                      searchsorted(allAxesVals[axes[i]], getAxisValues(soltab, axes[i]))]
     IN /\ allVals' = IxAssign(allVals, coords, soltab.arrays["val"])
        /\ allWeights' = IxAssign(allWeights, coords, soltab.arrays["weight"])
  /\ nfilled' = nfilled + 1
  /\ pc' = IF nfilled' = Len(soltabs) THEN "weights" ELSE "fill"
  /\ UNCHANGED <<h5s, insoltab, h5Out, h5Out0, soltabs, antennaNames, antennaPositions,
                 pointingNames, pointingDirections, allAxesVals, allShape>>
  /\ UNCHANGED <<soltabVars, historyVars, unionVars, handlerVars, lifeVars>>

\* The two weight passes after the fill.
PostProcess ==
  /\ pc = "weights"
  /\ allWeights' = FlagNans(NormalizeWeights(allWeights), allVals)
  /\ pc' = "write"
  /\ UNCHANGED <<h5s, insoltab, h5Out, h5Out0, soltabs, antennaNames, antennaPositions,
                 pointingNames, pointingDirections, allAxesVals, allShape, allVals, nfilled>>
  /\ UNCHANGED <<soltabVars, historyVars, unionVars, handlerVars, lifeVars>>

\* "Writing output...": get or create the solution-set, create the table.
WriteOutput ==
  /\ pc = "write"
  /\ LET axes      == getAxesNames(soltabs[1])
         solsetOut == IF OutSolset \in DOMAIN h5Out THEN h5Out[OutSolset] ELSE makeSolset
         r         == makeSoltab(solsetOut, getType(soltabs[1]), insoltab, axes,
                                 [i \in DOMAIN axes |-> allAxesVals[axes[i]]],
                                 allVals, allWeights)
     IN /\ h5Out' = [n \in DOMAIN h5Out \cup {OutSolset} |->
                       IF n = OutSolset THEN r.solset ELSE h5Out[n]]
        /\ pc' = IF r.raised = "none" THEN "catalogs" ELSE "failed"
  /\ UNCHANGED <<h5s, insoltab, h5Out0, soltabs, antennaNames, antennaPositions,
                 pointingNames, pointingDirections, allAxesVals, allShape, allVals,
                 allWeights, nfilled>>
  /\ UNCHANGED <<soltabVars, historyVars, unionVars, handlerVars, lifeVars>>

\* Append the collected rows to the output catalogs and close the files.
AppendCatalogs ==
  /\ pc = "catalogs"
  /\ h5Out' = [h5Out EXCEPT
       ![OutSolset].antenna = @ \o zip(antennaNames, antennaPositions),
       ![OutSolset].source = @ \o zip(pointingNames, pointingDirections)]
  /\ pc' = "done"
  /\ UNCHANGED <<h5s, insoltab, h5Out0, soltabs, antennaNames, antennaPositions,
                 pointingNames, pointingDirections, allAxesVals, allShape, allVals,
                 allWeights, nfilled>>
  /\ UNCHANGED <<soltabVars, historyVars, unionVars, handlerVars, lifeVars>>

\* ------------------------------------------- collector: run after run
MaxRuns == 2

\* Every run that ends leaves one more table in the output solution-set.
RunsDone ==
  IF OutSolset \in DOMAIN h5Out THEN Cardinality(DOMAIN h5Out[OutSolset].groups) ELSE 0

\* The first run of a series: one or more input files, no output file yet.
InitRuns ==
  /\ \E K \in 1..MaxTables : \E as \in [1..K -> AntDicts] : h5s = CatalogInputs(as)
  /\ insoltab \in {None, <<"t", "0">>}
  /\ h5Out = FreshOut
  /\ h5Out0 = h5Out
  /\ pc = "collect"
  /\ soltabs = <<>>
  /\ antennaNames = <<>> /\ antennaPositions = <<>>
  /\ pointingNames = <<>> /\ pointingDirections = <<>>
  /\ allAxesVals = EmptyMap
  /\ allShape = <<>>
  /\ allVals = EmptyVals(<<0>>)
  /\ allWeights = ZeroWeights(<<0>>)
  /\ nfilled = 0

\* The script is run again, without --clobber, on the output file the last
\* run closed: h5parm(args.outh5parm, readonly = False) opens it for
\* appending, and the script's variables start afresh.
NextRun ==
  /\ pc = "done"
  /\ RunsDone < MaxRuns
  /\ \E a \in AntDicts : h5s' = CatalogInputs(<<a>>)
  /\ h5Out0' = h5Out
  /\ pc' = "collect"
  /\ soltabs' = <<>>
  /\ antennaNames' = <<>> /\ antennaPositions' = <<>>
  /\ pointingNames' = <<>> /\ pointingDirections' = <<>>
  /\ allAxesVals' = EmptyMap
  /\ allShape' = <<>>
  /\ allVals' = EmptyVals(<<0>>)
  /\ allWeights' = ZeroWeights(<<0>>)
  /\ nfilled' = 0
  /\ UNCHANGED <<insoltab, h5Out>>
  /\ UNCHANGED <<soltabVars, historyVars, unionVars, handlerVars, lifeVars>>

\* ------------------------------------------------------------- history
\* The characters of the model in ASCII order.
Ascii ==
  <<" ", "+", "-", ".", "0", "1", "2", "3", "4", "5", "6", "7", "8", "9",
    "A", "B", "C", "D", "E", "F", "G", "H", "I", "J", "K", "L", "M", "N", "O",
    "P", "Q", "R", "S", "T", "U", "V", "W", "X", "Y", "Z", "_",
    "a", "b", "c", "d", "e", "f", "g", "h", "i", "j", "k", "l", "m", "n", "o",
    "p", "q", "r", "s", "t", "u", "v", "w", "x", "y", "z">>

Ord(c) == CHOOSE i \in DOMAIN Ascii : Ascii[i] = c

\* s < t for strings
RECURSIVE StrLess(_, _)
StrLess(s, t) ==
  IF t = <<>> THEN FALSE
  ELSE IF s = <<>> THEN TRUE
  ELSE IF s[1] = t[1] THEN StrLess(Tail(s), Tail(t))
  ELSE Ord(s[1]) < Ord(t[1])

\* attrs.sort() for a list of distinct strings
RECURSIVE SortNames(_)
SortNames(S) ==
  IF S = {} THEN <<>>
  ELSE LET m == CHOOSE x \in S : \A y \in S \ {x} : StrLess(x, y)
       IN <<m>> \o SortNames(S \ {m})

HISTORY == <<"H", "I", "S", "T", "O", "R", "Y">>

\* Whether int(s) succeeds on the three-character string s.
IsInt3(s) == Len(s) = 3 /\ \A i \in 1..3 : s[i] \in DigitChars

\* The suffixes addHistory finds taken: it lists the attributes of the
\* table group self.t.
HistoryNums(t, val) ==
  {ParseInt3(Last3(attr)) :
     attr \in {a \in DOMAIN t : DropLast3(a) = HISTORY /\ IsInt3(Last3(a))}}

\* The attribute addHistory writes.
historyAttr(t, val) == HISTORY \o Fmt03d(FirstFree(HistoryNums(t, val)))

\* current_time + ": " + str(entry)
Stamp(time, entry) == [time |-> time, entry |-> entry]

SetAttr(attrs, name, value) ==
  [a \in DOMAIN attrs \cup {name} |-> IF a = name THEN value ELSE attrs[a]]

\* getHistory: the exception raised ("none" when it returns) and the entries
\* it returns: the entries in the order of the sorted attribute names of
\* self.t.val, each read from the attributes of self.t; a name that self.t
\* does not have raises KeyError.
getHistory(t, val) ==
  LET attrs == SelectSeq(SortNames(DOMAIN val), LAMBDA a : DropLast3(a) = HISTORY)
  IN IF \E i \in DOMAIN attrs : attrs[i] \notin DOMAIN t
       THEN [raised |-> "KeyError", history |-> <<>>]
       ELSE [raised |-> "none", history |-> [i \in DOMAIN attrs |-> t[attrs[i]]]]

HistoryEntries == {"flagged", "smoothed", "reset"}

InitHistory ==
  /\ tAttrs = EmptyMap
  /\ valAttrs = (<<"A", "X", "E", "S">> :> "time,freq")
  /\ entries = <<>>
  /\ now = 0

AddHistory ==
  /\ Len(entries) < MaxHist
  /\ \E entry \in HistoryEntries, t \in {now, now + 1} :
       /\ now' = t
       /\ ~Exhausted(HistoryNums(tAttrs, valAttrs))
       /\ valAttrs' = SetAttr(valAttrs, historyAttr(tAttrs, valAttrs), Stamp(t, entry))
       /\ entries' = Append(entries, Stamp(t, entry))
  /\ UNCHANGED <<tAttrs, soltabVars, collectorVars, unionVars, handlerVars, lifeVars>>

\* ---------------------------------------------------------- axis union
InitUnion ==
  /\ uIn \in [1..3 -> TimeSeqs]
  /\ uStaged = <<>>
  /\ uDirect = <<>>
  /\ uPermuted = <<>>

\* Merge [A,B], then merge the result with C.
StagedMerge ==
  /\ uStaged = <<>>
  /\ uStaged' = UnionAxis(<<UnionAxis(<<uIn[1], uIn[2]>>), uIn[3]>>)
  /\ UNCHANGED <<uIn, uDirect, uPermuted>>
  /\ UNCHANGED <<soltabVars, collectorVars, historyVars, handlerVars, lifeVars>>

\* Merge [A,B,C].
DirectMerge ==
  /\ uDirect = <<>>
  /\ uDirect' = UnionAxis(uIn)
  /\ UNCHANGED <<uIn, uStaged, uPermuted>>
  /\ UNCHANGED <<soltabVars, collectorVars, historyVars, handlerVars, lifeVars>>

\* Merge [A,B,C] given in another order.
PermutedMerge ==
  /\ uPermuted = <<>>
  /\ \E perm \in Orders(1..3) : uPermuted' = UnionAxis([i \in 1..3 |-> uIn[perm[i]]])
  /\ UNCHANGED <<uIn, uStaged, uDirect>>
  /\ UNCHANGED <<soltabVars, collectorVars, historyVars, handlerVars, lifeVars>>

\* ------------------------------------------------- selection handlers
\* Axis names; the handler inspects them character by character.
Time == <<"t", "i", "m", "e">>

Freq == <<"f", "r", "e", "q">>

Dir == <<"d", "i", "r">>

Tim == <<"t", "i", "m">>

\* ','.join(names)
RECURSIVE JoinComma(_)
JoinComma(names) ==
  IF names = <<>> THEN <<>>
  ELSE IF Len(names) = 1 THEN names[1]
  ELSE names[1] \o <<",">> \o JoinComma(Tail(names))

\* sub in s, for two strings
Contains(s, sub) == \E i \in 0..(Len(s) - Len(sub)) : SubSeq(s, i + 1, i + Len(sub)) = sub

\* The table the handlers are tried on: time = [10,20], freq = [1,2,3], every
\* val cell different, one weight 0; built by makeSoltab in a new solution-set.
GridAxesNames == <<Time, Freq>>

GridAxesVals == <<<<10, 20>>, <<1, 2, 3>>>>

GridVal == [shape |-> <<2, 3>>, data |-> [idx \in Indexes(<<2, 3>>) |-> 10 * idx[1] + idx[2] + 1]]

GridWeight ==
  [shape |-> <<2, 3>>, data |-> [idx \in Indexes(<<2, 3>>) |-> IF idx = <<1, 2>> THEN 0 ELSE 1]]

GridNode ==
  LET r == makeSoltab(makeSolset, Amplitude, None, GridAxesNames, GridAxesVals, GridVal, GridWeight)
  IN r.solset.groups[r.name]

\* A node without children, such as the catalog table 'antenna'.
CatalogLeaf == NewGroup(AntennaLeaf)

\* The objects passed to a handler as table: what isinstance(table,
\* tables.table.Table) gives for the object, and the node it is.
TableObjects == {[isTable |-> b, node |-> n] : b \in BOOLEAN, n \in {GridNode, CatalogLeaf}}

HandlerClasses == {"solHandler", "solFetcher"}

\* The methods an instance of the class has.
Methods(cls) ==
  {"__init__", "setSelection", "getType", "getAxesNames", "getAxis", "getAxisValues",
   "addHistory", "getHistory"}
  \cup (IF cls = "solFetcher"
          THEN {"__getattr__", "getValuesGrid", "getIterValuesGrid", "getAntVal", "getSouVal"}
          ELSE {})

\* What reading an attribute the instance does not have raises.  A solHandler
\* raises AttributeError; solFetcher.__getattr__ starts with self.getAxes(),
\* an attribute the instance does not have either, so the lookup calls
\* itself until the interpreter stops the recursion.
MissingAttr(cls) == IF cls = "solFetcher" THEN "RuntimeError" ELSE "AttributeError"

\* The attribute self.t: not set, or the table object.
NoT == [set |-> FALSE, obj |-> [isTable |-> FALSE, node |-> CatalogLeaf]]

BoundT(table) == [set |-> TRUE, obj |-> table]

\* The attribute self.selection: not set, None, or a dict axis -> indices.
SelUnset == [kind |-> "unset", items |-> EmptyMap]

SelNone == [kind |-> "None", items |-> EmptyMap]

SelDict(items) == [kind |-> "dict", items |-> items]

\* The outcome of an expression: its value, or the exception it raises.
Value(v) == [raised |-> "none", value |-> v]

Raise(e) == [raised |-> e, value |-> <<>>]

\* solHandler.getAxesNames: self.t.val.attrs['AXES'], the string that
\* makeSoltab stored: the axis names joined by commas.
solHandler_getAxesNames(cls, t) ==
  IF ~t.set THEN Raise(MissingAttr(cls))
  ELSE IF "val" \notin DOMAIN t.obj.node.arrays THEN Raise("AttributeError")
  ELSE Value(JoinComma(t.obj.node.axesNames))

\* solHandler.setSelection(append, **args) with the items of args visited in
\* the given order: the selection after the call, the exception raised
\* ("none" when the call returns) and whether an error was logged.  The
\* first item ends the loop whatever it is: its axis is not in the AXES
\* string (error logged, return), or "selVal is str" and "selVal is dict"
\* compare a value with a type and are false, and the last branch calls
\* getAxisValues(axis), a name that no scope defines (NameError).
setSelection(cls, t, sel, append, args, order) ==
  LET start == IF ~append THEN SelDict(EmptyMap) ELSE sel
      Out(s, e, l) == [sel |-> s, raised |-> e, logged |-> l]
  IN IF order = <<>> THEN Out(start, "none", FALSE)
     ELSE LET names == solHandler_getAxesNames(cls, t)
          IN IF names.raised # "none" THEN Out(start, names.raised, FALSE)
             ELSE IF ~Contains(names.value, order[1]) THEN Out(start, "none", TRUE)
             ELSE Out(start, "NameError", FALSE)

\* solHandler.__init__(table, **args): the attributes of the new instance.
\* The dict args is passed to setSelection as append, and what setSelection
\* returns (None) is stored as the selection.
solHandler_init(cls, table, args) ==
  IF ~table.isTable THEN [t |-> NoT, sel |-> SelUnset, logged |-> TRUE]
  ELSE LET r == setSelection(cls, BoundT(table), SelUnset, DOMAIN args # {}, EmptyMap, <<>>)
       IN [t |-> BoundT(table), sel |-> IF r.raised = "none" THEN SelNone ELSE r.sel,
           logged |-> r.logged]

\* solFetcher.getValuesGrid: it reads the array and then calls
\* self.getAxes(), a method the class does not have; the line after that
\* tests "axes in self.selection", a name that no scope defines.
getValuesGrid(cls, t, sel, retAxisVals, weight) ==
  IF ~t.set THEN Raise(MissingAttr(cls))
  ELSE IF (IF weight THEN "weight" ELSE "val") \notin DOMAIN t.obj.node.arrays
    THEN Raise("AttributeError")
  ELSE IF "getAxes" \notin Methods(cls) THEN Raise(MissingAttr(cls))
  ELSE Raise("NameError")

\* solFetcher.getIterValuesGrid: the exception raised and the slices the
\* returned generator yields.  It starts with getValuesGrid; the list
\* iterAxesDim is then built from axesNames, a name that no scope defines.
getIterValuesGrid(cls, t, sel, returnAxes, weight) ==
  LET grid == getValuesGrid(cls, t, sel, TRUE, weight)
  IN IF grid.raised # "none" THEN [raised |-> grid.raised, slices |-> <<>>]
     ELSE [raised |-> "NameError", slices |-> <<>>]

\* The keyword arguments of the setSelection calls: up to two of the names
\* time, freq (axes of the table), dir (no axis) and tim (no axis, but part
\* of the AXES string), each with a value to select.
SelectionNames == {Time, Freq, Dir, Tim}

MaxSelArgs == 2

SelectionArgs ==
  UNION {[D -> {1, 2}] : D \in {S \in SUBSET SelectionNames : Cardinality(S) <= MaxSelArgs}}

\* The returnAxes lists of the getIterValuesGrid calls.
ReturnAxesArgs == {<<>>, <<Time>>, <<Freq>>, <<Time, Freq>>, <<Dir>>, <<Time, Dir>>}

NoHandlerCall ==
  [op |-> "none", append |-> FALSE, args |-> EmptyMap, returnAxes |-> <<>>,
   retAxisVals |-> FALSE, weight |-> FALSE, raised |-> "none", logged |-> FALSE,
   before |-> SelUnset, value |-> <<>>, slices |-> <<>>]

\* The handler as its constructor leaves it.
InitHandler ==
  /\ hCls \in HandlerClasses
  /\ hTable \in TableObjects
  /\ \E args \in SelectionArgs :
       LET r == solHandler_init(hCls, hTable, args)
       IN hT = r.t /\ hSel = r.sel
  /\ hLast = NoHandlerCall
  /\ hCalls = 0

SetSelection ==
  /\ hCalls < MaxCalls
  /\ \E append \in BOOLEAN, args \in SelectionArgs :
       \E order \in Orders(DOMAIN args) :
         LET r == setSelection(hCls, hT, hSel, append, args, order)
         IN /\ hSel' = r.sel
            /\ hLast' = [NoHandlerCall EXCEPT !.op = "setSelection", !.append = append,
                                              !.args = args, !.raised = r.raised,
                                              !.logged = r.logged, !.before = hSel]
  /\ hCalls' = hCalls + 1
  /\ UNCHANGED <<hCls, hTable, hT>>
  /\ UNCHANGED <<soltabVars, collectorVars, historyVars, unionVars, lifeVars>>

GetValuesGrid ==
  /\ hCalls < MaxCalls
  /\ "getValuesGrid" \in Methods(hCls)
  /\ \E retAxisVals \in BOOLEAN, weight \in BOOLEAN :
       LET r == getValuesGrid(hCls, hT, hSel, retAxisVals, weight)
       IN hLast' = [NoHandlerCall EXCEPT !.op = "getValuesGrid", !.retAxisVals = retAxisVals,
                                         !.weight = weight, !.raised = r.raised,
                                         !.before = hSel, !.value = r.value]
  /\ hCalls' = hCalls + 1
  /\ UNCHANGED <<hCls, hTable, hT, hSel>>
  /\ UNCHANGED <<soltabVars, collectorVars, historyVars, unionVars, lifeVars>>

GetIterValuesGrid ==
  /\ hCalls < MaxCalls
  /\ "getIterValuesGrid" \in Methods(hCls)
  /\ \E returnAxes \in ReturnAxesArgs, weight \in BOOLEAN :
       LET r == getIterValuesGrid(hCls, hT, hSel, returnAxes, weight)
       IN hLast' = [NoHandlerCall EXCEPT !.op = "getIterValuesGrid",
                                         !.returnAxes = returnAxes, !.weight = weight,
                                         !.raised = r.raised, !.before = hSel,
                                         !.slices = r.slices]
  /\ hCalls' = hCalls + 1
  /\ UNCHANGED <<hCls, hTable, hT, hSel>>
  /\ UNCHANGED <<soltabVars, collectorVars, historyVars, unionVars, lifeVars>>

\* ------------------------------------------------------ store handles
\* What a path names on disk: nothing, a file that is not a PyTables file,
\* or an h5parm file.
FileStates == {"missing", "other", "h5"}

\* h5parm.__init__(h5parmFile, readonly): the exception raised ("none" when
\* the object is built), whether self.H was assigned an open file, and what
\* is on disk afterwards.
h5parm_init(file, readonly) ==
  IF file # "missing"
    THEN IF file = "other" THEN [raised |-> "Exception", H |-> "none", file |-> file]
         ELSE [raised |-> "none", H |-> "open", file |-> file]
    ELSE IF readonly THEN [raised |-> "Exception", H |-> "none", file |-> file]
         ELSE [raised |-> "none", H |-> "open", file |-> "h5"]

\* An h5parm object: the file it was built for, its attribute H ("none"
\* when __init__ raised before assigning it), the number of close() calls
\* made on H, the number of times self.H was read without being there, and
\* whether the object is still referenced.
NewObject(f, r) == [file |-> f, H |-> r.H, closes |-> 0, attempts |-> 0, live |-> TRUE]

\* self.H.close()
CloseH(obj) ==
  IF obj.H = "none" THEN [obj EXCEPT !.attempts = @ + 1]
  ELSE [obj EXCEPT !.H = "closed", !.closes = @ + 1]

\* h5parm.__del__, run when the last reference to the object goes; an
\* exception it raises is printed and dropped by the interpreter.
h5parm_del(obj) == [CloseH(obj) EXCEPT !.live = FALSE]

\* h5.close() as the script calls it: it releases the file of the object.
h5parm_close(obj) == CloseH(obj)

NoArgs == [allTables |-> FALSE, clobber |-> FALSE, mergeFails |-> FALSE]

\* The script starts: one to MaxTables input paths and an output path, each
\* naming anything; --insoltab given or not, --clobber given or not.
InitLife ==
  /\ \E K \in 1..MaxTables : files \in [0..K -> FileStates]
  /\ runArgs \in [allTables : BOOLEAN, clobber : BOOLEAN, mergeFails : BOOLEAN]
  /\ objs = <<>>
  /\ lifePc = IF runArgs.allTables THEN "names" ELSE "inputs"
  /\ opened = 0

\* "if args.insoltab is None": open the first input, read its table names,
\* close it.
ReadNames ==
  /\ lifePc = "names"
  /\ LET r == h5parm_init(files[1], TRUE)
     IN IF r.raised # "none"
          THEN /\ objs' = Append(objs, NewObject(1, r))
               /\ lifePc' = "exit"
          ELSE /\ objs' = Append(objs, h5parm_close(NewObject(1, r)))
               /\ lifePc' = "inputs"
  /\ UNCHANGED <<files, opened, runArgs>>
  /\ UNCHANGED <<soltabVars, collectorVars, historyVars, unionVars, handlerVars>>

\* One pass of "open input".  The first pass that succeeds rebinds h5, the
\* only reference to the object of ReadNames, which is then destroyed.
OpenInput ==
  /\ lifePc = "inputs"
  /\ LET r == h5parm_init(files[opened + 1], TRUE)
         K == Cardinality(DOMAIN files) - 1
     IN IF r.raised # "none"
          THEN /\ objs' = Append(objs, NewObject(opened + 1, r))
               /\ lifePc' = "exit"
               /\ opened' = opened
          ELSE /\ objs' = Append(IF opened = 0 THEN [i \in DOMAIN objs |-> h5parm_del(objs[i])]
                                                ELSE objs,
                                 NewObject(opened + 1, r))
               /\ opened' = opened + 1
               /\ lifePc' = IF opened' = K THEN "output" ELSE "inputs"
  /\ UNCHANGED <<files, runArgs>>
  /\ UNCHANGED <<soltabVars, collectorVars, historyVars, unionVars, handlerVars>>

\* "open output": remove the file under --clobber, then open it for writing.
OpenOutput ==
  /\ lifePc = "output"
  /\ LET there == IF files[0] # "missing" /\ runArgs.clobber THEN "missing" ELSE files[0]
         r     == h5parm_init(there, FALSE)
     IN /\ objs' = Append(objs, NewObject(0, r))
        /\ files' = [files EXCEPT ![0] = r.file]
        /\ lifePc' = IF r.raised # "none" THEN "exit" ELSE "merge"
  /\ UNCHANGED <<opened, runArgs>>
  /\ UNCHANGED <<soltabVars, collectorVars, historyVars, unionVars, handlerVars>>

\* The merge, as far as the handles go: it ends or it raises.
Merge ==
  /\ lifePc = "merge"
  /\ lifePc' = IF runArgs.mergeFails THEN "exit" ELSE "close"
  /\ UNCHANGED <<files, objs, opened, runArgs>>
  /\ UNCHANGED <<soltabVars, collectorVars, historyVars, unionVars, handlerVars>>

\* "for h5 in h5s: h5.close()" and "h5Out.close()".
CloseAll ==
  /\ lifePc = "close"
  /\ objs' = [i \in DOMAIN objs |-> IF objs[i].live THEN h5parm_close(objs[i]) ELSE objs[i]]
  /\ lifePc' = "exit"
  /\ UNCHANGED <<files, opened, runArgs>>
  /\ UNCHANGED <<soltabVars, collectorVars, historyVars, unionVars, handlerVars>>

\* The script has ended, normally or by an exception: the interpreter drops
\* the objects that are left, in some order.
Destroy ==
  /\ lifePc = "exit"
  /\ \E i \in DOMAIN objs :
       /\ objs[i].live
       /\ objs' = [objs EXCEPT ![i] = h5parm_del(objs[i])]
  /\ UNCHANGED <<files, lifePc, opened, runArgs>>
  /\ UNCHANGED <<soltabVars, collectorVars, historyVars, unionVars, handlerVars>>

\* ------------------------------------------------------- specifications
IdleSoltab == solset = makeSolset /\ last = NoCall /\ ncalls = 0

IdleCollector ==
  /\ h5s = <<>> /\ insoltab = None /\ h5Out = FreshOut /\ h5Out0 = FreshOut
  /\ pc = "off" /\ soltabs = <<>>
  /\ antennaNames = <<>> /\ antennaPositions = <<>>
  /\ pointingNames = <<>> /\ pointingDirections = <<>>
  /\ allAxesVals = EmptyMap /\ allShape = <<>>
  /\ allVals = EmptyVals(<<0>>) /\ allWeights = ZeroWeights(<<0>>)
  /\ nfilled = 0

IdleHistory == tAttrs = EmptyMap /\ valAttrs = EmptyMap /\ entries = <<>> /\ now = 0

IdleUnion == uIn = <<>> /\ uStaged = <<>> /\ uDirect = <<>> /\ uPermuted = <<>>

IdleHandler ==
  /\ hCls = "solHandler" /\ hTable = NoT.obj /\ hT = NoT /\ hSel = SelUnset
  /\ hLast = NoHandlerCall /\ hCalls = 0

IdleLife ==
  files = EmptyMap /\ objs = <<>> /\ lifePc = "off" /\ opened = 0 /\ runArgs = NoArgs

\* Sequences of makeSoltab calls on one solution-set.
NextSoltab == MakeSoltab

StartSoltab ==
  InitSoltab /\ IdleCollector /\ IdleHistory /\ IdleUnion /\ IdleHandler /\ IdleLife

SpecSoltab == StartSoltab /\ [][NextSoltab]_vars

\* One run of the collector script.
NextCollector ==
  \/ Collect
  \/ MakeAxes
  \/ Fill
  \/ PostProcess
  \/ WriteOutput
  \/ AppendCatalogs

StartCollector ==
  InitCollector /\ IdleSoltab /\ IdleHistory /\ IdleUnion /\ IdleHandler /\ IdleLife

SpecCollector == StartCollector /\ [][NextCollector]_vars

\* Runs of the collector script, one after the other, into one output file.
NextRuns ==
  \/ Collect
  \/ MakeAxes
  \/ Fill
  \/ PostProcess
  \/ WriteOutput
  \/ AppendCatalogs
  \/ NextRun

StartRuns ==
  InitRuns /\ IdleSoltab /\ IdleHistory /\ IdleUnion /\ IdleHandler /\ IdleLife

SpecRuns == StartRuns /\ [][NextRuns]_vars

\* Sequences of addHistory calls on one table.
NextHistory == AddHistory

StartHistory ==
  InitHistory /\ IdleSoltab /\ IdleCollector /\ IdleUnion /\ IdleHandler /\ IdleLife

SpecHistory == StartHistory /\ [][NextHistory]_vars

\* The axis union as a function of the input tables' coordinate arrays.
NextUnion ==
  \/ StagedMerge
  \/ DirectMerge
  \/ PermutedMerge

StartUnion ==
  InitUnion /\ IdleSoltab /\ IdleCollector /\ IdleHistory /\ IdleHandler /\ IdleLife

SpecUnion == StartUnion /\ [][NextUnion]_vars

\* The h5parm objects of one run of the script, from open to teardown.
NextLife ==
  \/ ReadNames
  \/ OpenInput
  \/ OpenOutput
  \/ Merge
  \/ CloseAll
  \/ Destroy

StartLife ==
  InitLife /\ IdleSoltab /\ IdleCollector /\ IdleHistory /\ IdleUnion /\ IdleHandler

SpecLife == StartLife /\ [][NextLife]_vars

\* Sequences of method calls on one handler.
NextHandler ==
  \/ SetSelection
  \/ GetValuesGrid
  \/ GetIterValuesGrid

StartHandler ==
  InitHandler /\ IdleSoltab /\ IdleCollector /\ IdleHistory /\ IdleUnion /\ IdleLife

SpecHandler == StartHandler /\ [][NextHandler]_vars

\* =============================================================== claims
\* What a merge is expected to produce, stated from the input files alone.
InAxes == getAxesNames(h5s[1].soltab)

\* The coordinates input k has along the i-th axis.
InCoords(k, i) == h5s[k].soltab.axesVals[i]

\* The coordinate tuple of the merged cell t.
CellCoords(t) == [i \in DOMAIN t |-> allAxesVals[InAxes[i]][t[i] + 1]]

\* The inputs that hold the coordinate tuple c.
Covering(c) == {k \in DOMAIN h5s : \A i \in DOMAIN c : c[i] \in Range(InCoords(k, i))}

LastCovering(c) == CHOOSE k \in Covering(c) : \A j \in Covering(c) : j <= k

\* The index, in input k, of the cell at the coordinate tuple c.
LocalIndex(k, c) ==
  [i \in DOMAIN c |-> (CHOOSE j \in DOMAIN InCoords(k, i) : InCoords(k, i)[j] = c[i]) - 1]

InputCell(k, c, what) == h5s[k].soltab.arrays[what].data[LocalIndex(k, c)]

Ascending(a) == \A i, j \in DOMAIN a : i < j => a[i] < a[j]

Filled == pc \in {"weights", "write", "catalogs", "done"}

Normalized == pc \in {"write", "catalogs", "done"}

\* The table the run created in the output solution-set.
Written == pc \in {"catalogs", "done"}

OutName ==
  CHOOSE n \in DOMAIN h5Out[OutSolset].groups :
    OutSolset \in DOMAIN h5Out0 => n \notin DOMAIN h5Out0[OutSolset].groups

OutTable == h5Out[OutSolset].groups[OutName]

\* C1: for every axis of the first input the merged coordinate array is the
\* ascending, duplicate-free union of that axis's coordinates over all the
\* inputs, and the merged val and weight arrays have the shape of the union
\* lengths in the first input's axis order; the table written holds them.
C1_MergedAxesAreUnion ==
  /\ pc \in {"fill", "weights", "write", "catalogs", "done"} =>
       /\ DOMAIN allAxesVals = Range(InAxes)
       /\ \A i \in DOMAIN InAxes :
            /\ Ascending(allAxesVals[InAxes[i]])
            /\ Range(allAxesVals[InAxes[i]]) = UNION {Range(InCoords(k, i)) : k \in DOMAIN h5s}
       /\ allVals.shape = [i \in DOMAIN InAxes |-> Len(allAxesVals[InAxes[i]])]
       /\ allWeights.shape = allVals.shape
       /\ DOMAIN allVals.data = Indexes(allVals.shape)
       /\ DOMAIN allWeights.data = Indexes(allVals.shape)
  /\ Written =>
       /\ OutTable.axesNames = InAxes
       /\ OutTable.axesVals = [i \in DOMAIN InAxes |-> allAxesVals[InAxes[i]]]
       /\ OutTable.arrays["val"].shape = allVals.shape
       /\ OutTable.arrays["weight"].shape = allVals.shape

C1_Witness ==
  /\ pc = "done" /\ Len(h5s) = 2
  /\ \E i \in DOMAIN InAxes :
       \A k \in DOMAIN h5s : Len(allAxesVals[InAxes[i]]) > Len(InCoords(k, i))
  /\ \E i \in DOMAIN InAxes : Range(InCoords(1, i)) \cap Range(InCoords(2, i)) # {}

\* C2: every merged cell whose coordinate tuple some input holds has the
\* value, and before the weight passes the weight, that the last such input
\* in iteration order has at that coordinate; time=[1,2,3] with value 10 and
\* time=[2,3,4] with value 20 merge to time=[1,2,3,4], values [10,20,20,20].
C2_LastInputWins ==
  /\ Filled =>
       \A t \in DOMAIN allVals.data :
         Covering(CellCoords(t)) # {} =>
           LET c == CellCoords(t)
           IN /\ allVals.data[t] = InputCell(LastCovering(c), c, "val")
              /\ pc = "weights" => allWeights.data[t] = InputCell(LastCovering(c), c, "weight")
  /\ (Filled /\ h5s = ScenarioInputs) =>
       /\ allAxesVals["time"] = <<1, 2, 3, 4>>
       /\ allVals.data = (<<0>> :> 10) @@ (<<1>> :> 20) @@ (<<2>> :> 20) @@ (<<3>> :> 20)

C2_Witness ==
  /\ pc = "weights" /\ Len(h5s) = 2 /\ h5s # ScenarioInputs
  /\ \E t \in DOMAIN allVals.data :
       /\ Covering(CellCoords(t)) = {1, 2}
       /\ InputCell(1, CellCoords(t), "val") # InputCell(2, CellCoords(t), "val")
       /\ InputCell(1, CellCoords(t), "weight") # InputCell(2, CellCoords(t), "weight")

\* C3: after the merge every merged cell whose coordinate tuple no input
\* holds has the missing marker in val and weight exactly 0.
C3_UncoveredCellsMissing ==
  Filled =>
    \A t \in DOMAIN allVals.data :
      Covering(CellCoords(t)) = {} => isnan(allVals.data[t]) /\ allWeights.data[t] = 0

C3_Witness ==
  /\ pc = "done"
  /\ \E t \in DOMAIN allVals.data : Covering(CellCoords(t)) = {}
  /\ \E t \in DOMAIN allVals.data : Covering(CellCoords(t)) # {}

\* The weight scattered into the merged cell t: the last covering input's.
ScatteredWeight(t) ==
  IF Covering(CellCoords(t)) = {} THEN 0
  ELSE InputCell(LastCovering(CellCoords(t)), CellCoords(t), "weight")

\* C4: after the merge every weight is 0 or 1: it is 1 where the scattered
\* weight is nonzero and the merged value is not missing, 0 elsewhere; so no
\* missing-valued cell carries a positive weight.  The table written holds
\* these weights.
C4_WeightsNormalized ==
  /\ Normalized =>
       \A t \in DOMAIN allWeights.data :
         /\ allWeights.data[t] \in {0, 1}
         /\ allWeights.data[t] =
              (IF ScatteredWeight(t) # 0 /\ ~isnan(allVals.data[t]) THEN 1 ELSE 0)
         /\ isnan(allVals.data[t]) => allWeights.data[t] = 0
  /\ Written => OutTable.arrays["weight"] = allWeights /\ OutTable.arrays["val"] = allVals

C4_Witness ==
  /\ pc = "done"
  /\ \E t \in DOMAIN allWeights.data : ScatteredWeight(t) = 5 /\ isnan(allVals.data[t])
  /\ \E t \in DOMAIN allWeights.data : ScatteredWeight(t) > 1 /\ allWeights.data[t] = 1
  /\ \E t \in DOMAIN allWeights.data : ScatteredWeight(t) = 0 /\ ~isnan(allVals.data[t])

\* The input table with every axis sorted ascending and its cells moved along.
SortedCoords(i) == sorted(Range(InCoords(1, i)))

\* The {0,1} normalization of the only input's weight at coordinate tuple c.
NormalizedInput(c) ==
  IF InputCell(1, c, "weight") # 0 /\ ~isnan(InputCell(1, c, "val")) THEN 1 ELSE 0

\* C5 as claimed: the merge of a single table has the input's coordinate
\* arrays (same values, same order), its value array and its normalized
\* weights, whether or not the input's axes are sorted.
C5_SingleTableIdentical ==
  (pc = "done" /\ Len(h5s) = 1) =>
    /\ OutTable.axesVals = h5s[1].soltab.axesVals
    /\ OutTable.arrays["val"] = h5s[1].soltab.arrays["val"]
    /\ \A t \in DOMAIN OutTable.arrays["weight"].data :
         OutTable.arrays["weight"].data[t] =
           NormalizedInput([i \in DOMAIN t |-> InCoords(1, i)[t[i] + 1]])

\* C5 as amended: the merge of a single table whose coordinate arrays are
\* duplicate-free has, along every axis, the input's coordinates in ascending
\* order, and at every coordinate tuple the input's value and normalized
\* weight; so it is identical to the input when every axis is ascending.
C5_SingleTableSorted ==
  (pc = "done" /\ Len(h5s) = 1) =>
    /\ OutTable.axesVals = [i \in DOMAIN InAxes |-> SortedCoords(i)]
    /\ OutTable.arrays["val"].shape = h5s[1].soltab.arrays["val"].shape
    /\ \A t \in DOMAIN OutTable.arrays["val"].data :
         LET c == [i \in DOMAIN t |-> OutTable.axesVals[i][t[i] + 1]]
         IN /\ OutTable.arrays["val"].data[t] = InputCell(1, c, "val")
            /\ OutTable.arrays["weight"].data[t] = NormalizedInput(c)
    /\ (\A i \in DOMAIN InAxes : Ascending(InCoords(1, i))) =>
         /\ OutTable.axesVals = h5s[1].soltab.axesVals
         /\ OutTable.arrays["val"] = h5s[1].soltab.arrays["val"]

C5_Witness ==
  /\ pc = "done" /\ Len(h5s) = 1
  /\ \A i \in DOMAIN InAxes : Ascending(InCoords(1, i)) /\ Len(InCoords(1, i)) = 2
  /\ \E t \in DOMAIN OutTable.arrays["weight"].data :
       OutTable.arrays["weight"].data[t] = 1 /\ h5s[1].soltab.arrays["weight"].data[t] = 2

\* C6: for the coordinate arrays of any tables A, B, C, merging [A,B] and
\* then the result with C gives the same merged coordinate array as merging
\* [A,B,C], and so does merging the three in any other order.
C6_UnionOrderIndependent ==
  /\ (uStaged # <<>> /\ uDirect # <<>>) => uStaged = uDirect
  /\ (uPermuted # <<>> /\ uDirect # <<>>) => uPermuted = uDirect
  /\ (uPermuted # <<>> /\ uStaged # <<>>) => uPermuted = uStaged

C6_Witness ==
  /\ uStaged # <<>> /\ uDirect # <<>> /\ uPermuted # <<>>
  /\ uIn[1] # uIn[2] /\ uIn[2] # uIn[3] /\ uIn[1] # uIn[3]
  /\ \E k \in 1..3 : ~Ascending(uIn[k])
  /\ \A k \in 1..3 : uDirect # uIn[k]

\* C7 as claimed: whatever makeSoltab calls were made, failed ones included,
\* every table of the solution-set has a val and a weight array whose shapes
\* are the lengths of its axes in order.
C7_TablesComplete ==
  \A name \in DOMAIN solset.groups :
    LET table == solset.groups[name]
    IN /\ DOMAIN table.arrays = {"val", "weight"}
       /\ table.arrays["val"].shape = Dim(table.axesVals)
       /\ table.arrays["weight"].shape = Dim(table.axesVals)

\* The smallest n in 0..999 for which no table is named soltype + "%03d" % n.
SmallestUnused(ss, soltype) ==
  CHOOSE n \in 0..(Ceiling - 1) :
    /\ soltype \o Fmt03d(n) \notin DOMAIN ss.groups
    /\ \A m \in 0..(n - 1) : soltype \o Fmt03d(m) \in DOMAIN ss.groups

\* The latest call left the choice of the name to makeSoltab.
NameLeftOpen ==
  /\ ncalls > 0 /\ last.soltype # None
  /\ \/ last.soltab = None
     \/ ~ValidName(last.soltab)
     \/ last.soltab \in DOMAIN last.before.groups

\* C8 as claimed: a call whose table name is omitted, invalid or taken
\* creates the table under its type followed by the smallest three-digit
\* suffix that no table named type### uses, a name no existing table has.
C8_SmallestFreeSuffix ==
  NameLeftOpen =>
    /\ last.name = last.soltype \o Fmt03d(SmallestUnused(last.before, last.soltype))
    /\ last.name \notin DOMAIN last.before.groups
    /\ last.name \in DOMAIN solset.groups

\* The rows the run appended to a catalog of the output solution-set.
Appended(catalog) ==
  LET rows  == h5Out[OutSolset][catalog]
      prior == IF OutSolset \in DOMAIN h5Out0 THEN Len(h5Out0[OutSolset][catalog]) ELSE 0
  IN SubSeq(rows, prior + 1, Len(rows))

\* The first input, in input order, whose catalog has the name.
FirstWith(catalog, name) ==
  CHOOSE k \in DOMAIN h5s :
    /\ name \in DOMAIN h5s[k][catalog]
    /\ \A j \in 1..(k - 1) : name \notin DOMAIN h5s[j][catalog]

UnionFirstWins(rows, catalog) ==
  /\ {rows[i].name : i \in DOMAIN rows} = UNION {DOMAIN h5s[k][catalog] : k \in DOMAIN h5s}
  /\ \A i, j \in DOMAIN rows : rows[i].name = rows[j].name => i = j
  /\ \A i \in DOMAIN rows : rows[i].value = h5s[FirstWith(catalog, rows[i].name)][catalog][rows[i].name]

\* C9: the antenna and direction rows a merge writes hold exactly the names
\* found in the inputs, each once, with the value of the first input that
\* has the name.
C9_CatalogsFirstWins ==
  pc = "done" => /\ UnionFirstWins(Appended("antenna"), "ant")
                 /\ UnionFirstWins(Appended("source"), "sou")

C9_Witness ==
  /\ pc = "done" /\ Len(h5s) = 2
  /\ \E n \in DOMAIN h5s[1].ant \cap DOMAIN h5s[2].ant : h5s[1].ant[n] # h5s[2].ant[n]
  /\ DOMAIN h5s[2].ant \ DOMAIN h5s[1].ant # {}
  /\ h5s[1].sou # h5s[2].sou

\* C10 as claimed: after any addHistory calls getHistory returns one entry
\* per call, in call order.
C10_HistoryKeepsEveryEntry ==
  getHistory(tAttrs, valAttrs) = [raised |-> "none", history |-> entries]

\* The latest call was a setSelection call that names an axis the table of
\* the handler does not have.
NamesUnknownAxis ==
  /\ hLast.op = "setSelection"
  /\ \E a \in DOMAIN hLast.args : a \notin Range(hTable.node.axesNames)

\* C11 as claimed: a setSelection call that names an axis the table does not
\* have reports an error and leaves the handler's selection as it was before
\* the call.
C11_UnknownAxisIsNoOp ==
  NamesUnknownAxis => /\ hLast.logged \/ hLast.raised # "none"
                      /\ hSel = hLast.before

\* The handler was given the solution-table (not a catalog leaf).
OnSoltab == hTable.node = GridNode

TableAxes == hTable.node.axesNames

\* The selection holds, for every axis, no entry or all the axis's indices.
SelectsAll(sel) ==
  \A i \in DOMAIN TableAxes :
    TableAxes[i] \in DOMAIN sel.items =>
      sel.items[TableAxes[i]] = [j \in DOMAIN hTable.node.axesVals[i] |-> j - 1]

\* C12 as claimed: with a selection of all indices of every axis (or with no
\* entry for any axis) getValuesGrid returns the table's stored val array
\* (weight array when weight is true), same shape and axis order, and, when
\* asked for them, the table's axis arrays as the coordinate values.
C12_FullSelectionRoundTrip ==
  (hLast.op = "getValuesGrid" /\ OnSoltab /\ SelectsAll(hLast.before)) =>
    /\ hLast.raised = "none"
    /\ LET stored == hTable.node.arrays[IF hLast.weight THEN "weight" ELSE "val"]
       IN IF hLast.retAxisVals
            THEN hLast.value = [vals |-> stored, axisVals |-> hTable.node.axesVals]
            ELSE hLast.value = stored

\* The positions, in table order, of the axes that are (keep) or are not
\* (~keep) among returnAxes.
AxisPositions(returnAxes, keep) ==
  SelectSeq([i \in DOMAIN TableAxes |-> i],
            LAMBDA i : (TableAxes[i] \in Range(returnAxes)) = keep)

\* The index tuples of a shape in row-major order.
RECURSIVE RowMajor(_)
RowMajor(shape) ==
  IF shape = <<>> THEN <<<<>>>>
  ELSE LET rest == RowMajor(Tail(shape))
       IN [k \in 1..(shape[1] * Len(rest)) |->
             <<(k - 1) \div Len(rest)>> \o rest[((k - 1) % Len(rest)) + 1]]

\* Where position i stands in the sequence of positions pos.
Slot(pos, i) == CHOOSE k \in DOMAIN pos : pos[k] = i

\* The slices a getIterValuesGrid(returnAxes) call is to yield: one per index
\* tuple of the iter axes, in row-major order; each the dense array over the
\* return axes in table order, with the coordinate array of every return
\* axis and the single coordinate of every iter axis.
ExpectedSlices(returnAxes, what) ==
  LET ret   == AxisPositions(returnAxes, TRUE)
      iter  == AxisPositions(returnAxes, FALSE)
      dims  == Dim(hTable.node.axesVals)
      steps == RowMajor([k \in DOMAIN iter |-> dims[iter[k]]])
      rshape == [k \in DOMAIN ret |-> dims[ret[k]]]
      At(it, idx) == [i \in DOMAIN TableAxes |->
                        IF TableAxes[i] \in Range(returnAxes) THEN idx[Slot(ret, i)]
                        ELSE it[Slot(iter, i)]]
  IN [s \in DOMAIN steps |->
        [vals |-> [shape |-> rshape,
                   data |-> [idx \in Indexes(rshape) |->
                               hTable.node.arrays[what].data[At(steps[s], idx)]]],
         axisVals |-> [i \in DOMAIN TableAxes |->
                         IF TableAxes[i] \in Range(returnAxes) THEN hTable.node.axesVals[i]
                         ELSE <<hTable.node.axesVals[i][steps[s][Slot(iter, i)] + 1]>>]]]

\* C13 as claimed: getIterValuesGrid(returnAxes) yields exactly one slice
\* per combination of indices of the iter axes, in row-major order, each with
\* the return axes as its dimensions in table order and with the axis values
\* of that point; with no iter axes it yields the whole grid as one slice.
C13_IterationCoversGrid ==
  (hLast.op = "getIterValuesGrid" /\ OnSoltab /\ SelectsAll(hLast.before)
     /\ Range(hLast.returnAxes) \subseteq Range(TableAxes)) =>
    /\ hLast.raised = "none"
    /\ hLast.slices = ExpectedSlices(hLast.returnAxes, IF hLast.weight THEN "weight" ELSE "val")

\* C14 as claimed: a getIterValuesGrid call with a returnAxes name that is no
\* axis of the table is refused as such, by an axis-not-found exception or a
\* logged error, and yields no slice.
C14_UnknownReturnAxisRefused ==
  (hLast.op = "getIterValuesGrid" /\ OnSoltab
     /\ \E a \in Range(hLast.returnAxes) : a \notin Range(TableAxes)) =>
    /\ hLast.raised = "AxisNotFound" \/ hLast.logged
    /\ hLast.slices = <<>>

\* What ExpectedSlices gives for the table of the handlers: six slices of
\* one cell when nothing is returned, two rows of three cells for freq, one
\* slice, the whole grid, when both axes are returned.
ExpectedSlicesSane ==
  OnSoltab =>
    /\ Len(ExpectedSlices(<<>>, "val")) = 6
    /\ [s \in 1..6 |-> ExpectedSlices(<<>>, "val")[s].vals.data[<<>>]] = <<1, 2, 3, 11, 12, 13>>
    /\ Len(ExpectedSlices(<<Freq>>, "val")) = 2
    /\ ExpectedSlices(<<Freq>>, "val")[2].vals.data = (<<0>> :> 11) @@ (<<1>> :> 12) @@ (<<2>> :> 13)
    /\ ExpectedSlices(<<Freq>>, "val")[2].axisVals = <<<<20>>, <<1, 2, 3>>>>
    /\ ExpectedSlices(<<Time, Freq>>, "val") = <<[vals |-> GridVal, axisVals |-> GridAxesVals]>>

\* Every name of the catalog is in one row only.
NamesOnce(rows) == \A i, j \in DOMAIN rows : rows[i].name = rows[j].name => i = j

\* C15 as claimed: after any runs of the collector into one output file and
\* solution-set without --clobber, the antenna catalog and the direction
\* catalog of the output solution-set hold every name at most once, and the
\* tables that were there when the last run started are there unchanged.
C15_AppendKeepsNamesUnique ==
  pc = "done" =>
    /\ NamesOnce(h5Out[OutSolset].antenna)
    /\ NamesOnce(h5Out[OutSolset].source)
    /\ OutSolset \in DOMAIN h5Out0 =>
         \A n \in DOMAIN h5Out0[OutSolset].groups :
           /\ n \in DOMAIN h5Out[OutSolset].groups
           /\ h5Out[OutSolset].groups[n] = h5Out0[OutSolset].groups[n]

\* The part of C15 that the code keeps: a run leaves the tables of the
\* output solution-set as they were and adds one.
C15_EarlierTablesKept ==
  (pc = "done" /\ OutSolset \in DOMAIN h5Out0) =>
    /\ \A n \in DOMAIN h5Out0[OutSolset].groups :
         /\ n \in DOMAIN h5Out[OutSolset].groups
         /\ h5Out[OutSolset].groups[n] = h5Out0[OutSolset].groups[n]
    /\ Cardinality(DOMAIN h5Out[OutSolset].groups) = Cardinality(DOMAIN h5Out0[OutSolset].groups) + 1

\* The script is over and every h5parm object is gone.
TornDown == lifePc = "exit" /\ \A i \in DOMAIN objs : ~objs[i].live

\* C16 as claimed: on every path of a run (success, a failed open, an error
\* in the merge), once the objects are gone every file that was opened has
\* been closed by exactly one close() call, and nothing tried to close the
\* file of an object whose open failed.
C16_HandlesReleasedOnce ==
  TornDown =>
    \A i \in DOMAIN objs :
      /\ objs[i].H # "none" => objs[i].H = "closed" /\ objs[i].closes = 1
      /\ objs[i].H = "none" => objs[i].attempts = 0

====
